---- MODULE Spec2Model ----
(***************************************************************************)
(* Blog API handlers (handlers package): CreatePost, GetPost, UpdatePost   *)
(* and DeletePost over three stores: the relational store (posts,          *)
(* activity_logs), the Redis cache ("post:<id>" keys) and the              *)
(* Elasticsearch index "posts", plus the goroutines indexPostInES and      *)
(* deletePostFromES.  Every call to a store is one step of a request, so   *)
(* that requests and goroutines interleave as they do in the server.       *)
(***************************************************************************)
EXTENDS Integers, Sequences, FiniteSets, TLC

\* ---------------------------------------------------------------- bounds
MaxReqs == 3        \* requests served in one behaviour
MaxPosts == 1       \* ids the posts_id_seq sequence hands out

MaxRows == 9        \* ids of the tables the read handlers are run over

Procs == {"r1", "r2"}            \* requests being served at the same time
PostIds == 1..MaxPosts
RowIds == 1..MaxRows
IntBits == 16       \* width kept for Go's int (64 bits in the build), so that
                    \* (page - 1) * limit wraps as it does there

\* ------------------------------------------------------------ data model
\* models.Post; the zero struct stands for "no row" (ID 0 is never assigned).
\* A nil and an empty Tags slice both have length 0 and are kept as <<>>.
Post(id, title, content, tags, created, updated) ==
    [id |-> id, title |-> title, content |-> content, tags |-> tags,
     created_at |-> created, updated_at |-> updated]

NoPost == Post(0, "", "", <<>>, 0, 0)

\* models.ActivityLog; post_id 0 is the NULL reference (PostID *uint = nil).
NullRef == 0

ActivityLog(id, action, ref) == [id |-> id, action |-> action, post_id |-> ref]

NoLog == ActivityLog(0, "", NullRef)

\* (a document that leaves the tags of the post out)
PostSearchResultUntagged(post) ==
    [id |-> post.id, title |-> post.title, content |-> post.content, tags |-> <<>>]

\* models.PostSearchResult: the document indexPostInES builds from a post.
PostSearchResult(post) ==
    [id |-> post.id, title |-> post.title, content |-> post.content,
     tags |-> post.tags]

NoDoc == [id |-> 0, title |-> "", content |-> "", tags |-> <<>>]

\* json.Marshal(post): the cached bytes, one JSON member per struct field.
Marshal(post) ==
    << <<"id", post.id>>, <<"title", post.title>>, <<"content", post.content>>,
       <<"tags", post.tags>>, <<"created_at", post.created_at>>,
       <<"updated_at", post.updated_at>> >>

\* Redis has no value under the key (redis.Nil).
NoEntry == <<>>

\* json.Unmarshal([]byte(cachedData), &post) == nil
UnmarshalOk(bytes) ==
    /\ Len(bytes) = 6
    /\ bytes[1][1] = "id"

\* the post json.Unmarshal fills in
Unmarshal(bytes) ==
    Post(bytes[1][2], bytes[2][2], bytes[3][2], bytes[4][2], bytes[5][2], bytes[6][2])

\* ---------------------------------------------------------------- inputs
\* models.CreatePostRequest bodies (title and content are binding:"required")
CreateBodies ==
    { [title |-> "A", content |-> "x", tags |-> <<"go">>, tagsNil |-> FALSE],
      [title |-> "", content |-> "x", tags |-> <<>>, tagsNil |-> TRUE] }

\* models.UpdatePostRequest bodies; tagsNil: the tags member is absent or null
UpdateBodies ==
    { [title |-> "B", content |-> "", tags |-> <<>>, tagsNil |-> TRUE],
      [title |-> "", content |-> "y", tags |-> <<>>, tagsNil |-> TRUE] }

\* the zero models.UpdatePostRequest
NoBody == [title |-> "", content |-> "", tags |-> <<>>, tagsNil |-> TRUE]

\* models.UpdatePostRequest bodies for the overlay alone: each member absent
\* (or empty, which binds to the same value) or given; tags absent, [],
\* or a sequence
OverlayBodies ==
    [title : {"", "B"}, content : {"", "y"},
     tags : {<<>>}, tagsNil : {TRUE, FALSE}]
       \cup [title : {"", "B"}, content : {"", "y"},
              tags : {<<"web">>, <<"web", "go">>}, tagsNil : {FALSE}]

\* the tags of the row the overlay is applied to
OverlayRowTags == {<<>>, <<"go">>, <<"go", "db">>}

\* ----------------------------------------------------------------- state
VARIABLES
    posts,      \* table posts: id -> row, NoPost where there is none
    logs,       \* table activity_logs: the set of rows
    postSeq,    \* last value of posts_id_seq
    logSeq,     \* last value of activity_logs_id_seq
    clock,      \* time.Now() as a logical clock, one tick per stamped write
    cache,      \* Redis: id -> bytes under "post:<id>", NoEntry where none
    es,         \* Elasticsearch index "posts": id -> document, NoDoc where none
    tasks,      \* the goroutines started with `go` that have not run yet
    pc,         \* where each request is in its handler
    loc,        \* a request's locals: id, post, tx
    out,        \* the response written last with c.JSON, and the request it answers
    reqs,       \* requests accepted so far
    observe,    \* the history variables below are being recorded
    failed,     \* a call to a store has returned an error
    retUpd,     \* id -> updated_at of the newest update that has responded 200
    delRet,     \* id -> a delete of the id has responded 200
    retIds,     \* the ids of the posts CreatePost has responded 201 with
    written,    \* the rows a commit of CreatePost or a save of UpdatePost has written
    invalFloor  \* id -> oldest updated_at the store held at or after the last Redis Del

vars == <<posts, logs, postSeq, logSeq, clock, cache, es, tasks, pc, loc, out,
          reqs, observe, failed, retUpd, delRet, retIds, written, invalFloor>>

store == <<posts, logs>>
hist == <<observe, retUpd, delRet, retIds, written, invalFloor>>

\* an open *gorm.DB transaction: what it has written and not yet committed
NoTx == [post |-> NoPost, log |-> NoLog, delLogs |-> {}, delPost |-> FALSE]

\* the pagination block of a list response
NoPagination == [current_page |-> 0, total_pages |-> 0, total_count |-> 0,
                 limit |-> 0, has_next |-> FALSE, has_prev |-> FALSE]

\* floor, afterDel: what retUpd and delRet were for the id when the request came in;
\* postIDs: the ids findRelatedPosts took from the hits; page, limit, total:
\* the locals of the list handlers; req: a request body bound before the
\* behaviour starts
NoLoc == [id |-> 0, post |-> NoPost, tx |-> NoTx, floor |-> 0, afterDel |-> FALSE,
          postIDs |-> {}, page |-> 0, limit |-> 0, total |-> 0, req |-> NoBody]

\* items: the posts, logs or documents of a response that carries a list;
\* count: its "count" member; tag: the tag parameter of the request
NoOut == [op |-> "none", id |-> 0, status |-> 0, post |-> NoPost,
          floor |-> 0, afterDel |-> FALSE, items |-> <<>>, pagination |-> NoPagination,
          count |-> 0, tag |-> ""]

\* The server is constructed over stores that outlive it (InitPostgreSQL,
\* InitRedis and InitElasticsearch connect to running services, AutoMigrate
\* keeps the rows): they are empty, or hold the post an earlier run created,
\* with its new_post log and its index document.
SeedPost == Post(1, "A", "x", <<"go">>, 1, 1)

InitStoresWith(entry) ==
    /\ \/ /\ posts = [i \in PostIds |-> NoPost]
          /\ logs = {}
          /\ postSeq = 0
          /\ logSeq = 0
          /\ clock = 0
          /\ es = [i \in PostIds |-> NoDoc]
          /\ written = {}
       \/ /\ posts = [i \in PostIds |-> IF i = 1 THEN SeedPost ELSE NoPost]
          /\ logs = {ActivityLog(1, "new_post", 1)}
          /\ postSeq = 1
          /\ logSeq = 1
          /\ clock = 1
          /\ es = [i \in PostIds |-> IF i = 1 THEN PostSearchResult(SeedPost) ELSE NoDoc]
          /\ written = {SeedPost}
    /\ cache = [i \in PostIds |-> IF i = 1 THEN entry ELSE NoEntry]
    /\ tasks = <<>>
    /\ failed = FALSE
    /\ pc = [p \in Procs |-> "idle"]
    /\ loc = [p \in Procs |-> NoLoc]
    /\ out = NoOut
    /\ reqs = 0
    /\ retUpd = [i \in PostIds |-> 0]
    /\ delRet = [i \in PostIds |-> FALSE]
    /\ retIds = {}
    /\ invalFloor = [i \in PostIds |-> 0]

\* the cache starts empty
InitStores == InitStoresWith(NoEntry)

Init == InitStores /\ observe = FALSE

\* Redis outlives the server as well: the key "post:1" may hold bytes that
\* json.Unmarshal rejects (JSON cut short)
Corrupt == SubSeq(Marshal(SeedPost), 1, 3)

\* the tables are new, Redis still holds the damaged entry
InitCorrupt == InitStoresWith(Corrupt) /\ postSeq = 0 /\ observe = FALSE

InitHist == InitStores /\ observe = TRUE

\* the tables are new
InitNew == Init /\ postSeq = 0

\* the tables are new and the history is recorded
InitHistNew == InitHist /\ postSeq = 0

\* The read handlers are run over tables and an index that earlier runs have
\* filled: posts 1..MaxRows were created with one tag in common (the last two
\* with another tag and with none), some were deleted since, the first few
\* have a document in the index, and some documents are older than their row.
RowTags(i) ==
    IF i = MaxRows THEN <<>>
    ELSE IF i = MaxRows - 1 THEN <<"web">>
    ELSE IF i = 1 THEN <<"go", "db">>
    ELSE <<"go">>

Row(i) == Post(i, "A", "x", RowTags(i), i, i)

\* the document an update of the title has not reached yet
StaleDoc(i) == PostSearchResult([Row(i) EXCEPT !.title = "old"])

DeletedSets == {{}, {2}, {3}, {2, 3}, RowIds}

StaleSets == SUBSET {3, 4}

InitReadsWith(entries) ==
    /\ \E deleted \in DeletedSets, stale \in StaleSets, indexed \in 0..MaxRows :
          /\ posts = [i \in RowIds |-> IF i \in deleted THEN NoPost ELSE Row(i)]
          /\ logs = {ActivityLog(i, "new_post", i) : i \in RowIds \ deleted}
                        \cup {ActivityLog(MaxRows + i, "delete_post", NullRef) : i \in deleted}
          /\ es = [i \in RowIds |->
                      IF i > indexed THEN NoDoc
                      ELSE IF i \in stale THEN StaleDoc(i)
                      ELSE PostSearchResult(Row(i))]
    /\ postSeq = MaxRows
    /\ logSeq = 2 * MaxRows
    /\ clock = MaxRows
    /\ \E entry \in entries : cache = [i \in RowIds |-> IF i = 1 THEN entry ELSE NoEntry]
    /\ tasks = <<>>
    /\ failed = FALSE
    /\ pc = [p \in Procs |-> "idle"]
    /\ loc = [p \in Procs |-> NoLoc]
    /\ out = NoOut
    /\ reqs = MaxReqs - 1
    /\ observe = FALSE
    /\ retUpd = [i \in RowIds |-> 0]
    /\ delRet = [i \in RowIds |-> FALSE]
    /\ retIds = {}
    /\ written = {}
    /\ invalFloor = [i \in RowIds |-> 0]

\* the cache is empty
InitReads == InitReadsWith({NoEntry})

\* the snapshot of post 1 a GetPost cached before an update of the title
\* whose h.Redis.Del failed
StaleEntry == Marshal([Row(1) EXCEPT !.title = "old"])

\* the cache is empty, or holds post 1 as it is or as it was
InitReadsCached == InitReadsWith({NoEntry, Marshal(Row(1)), StaleEntry})

\* New tables that are kept for one id more than the requests ask for, so
\* that CreatePost can be served twice; the history is recorded.
SeqIds == 1..(MaxPosts + 1)

InitIdentity ==
    /\ posts = [i \in SeqIds |-> NoPost]
    /\ logs = {}
    /\ postSeq = 0
    /\ logSeq = 0
    /\ clock = 0
    /\ es = [i \in SeqIds |-> NoDoc]
    /\ cache = [i \in SeqIds |-> NoEntry]
    /\ tasks = <<>>
    /\ failed = FALSE
    /\ pc = [p \in Procs |-> "idle"]
    /\ loc = [p \in Procs |-> NoLoc]
    /\ out = NoOut
    /\ reqs = 0
    /\ observe = TRUE
    /\ retUpd = [i \in SeqIds |-> 0]
    /\ delRet = [i \in SeqIds |-> FALSE]
    /\ retIds = {}
    /\ written = {}
    /\ invalFloor = [i \in SeqIds |-> 0]

\* An update of post 1 has been bound (c.ShouldBindJSON(&req)) over a row
\* and a request body drawn from OverlayRowTags and OverlayBodies.
InitOverlay ==
    /\ \E tags \in OverlayRowTags, body \in OverlayBodies :
          /\ posts = [i \in PostIds |-> IF i = 1 THEN [SeedPost EXCEPT !.tags = tags] ELSE NoPost]
          /\ es = [i \in PostIds |->
                      IF i = 1 THEN PostSearchResult([SeedPost EXCEPT !.tags = tags]) ELSE NoDoc]
          /\ loc = [p \in Procs |->
                       IF p = "r1" THEN [NoLoc EXCEPT !.id = 1, !.req = body] ELSE NoLoc]
    /\ logs = {ActivityLog(1, "new_post", 1)}
    /\ postSeq = 1
    /\ logSeq = 1
    /\ clock = 1
    /\ cache = [i \in PostIds |-> NoEntry]
    /\ tasks = <<>>
    /\ failed = FALSE
    /\ pc = [p \in Procs |-> IF p = "r1" THEN "update_bound" ELSE "idle"]
    /\ out = NoOut
    /\ reqs = MaxReqs
    /\ observe = FALSE
    /\ retUpd = [i \in PostIds |-> 0]
    /\ delRet = [i \in PostIds |-> FALSE]
    /\ retIds = {}
    /\ written = {}
    /\ invalFloor = [i \in PostIds |-> 0]

\* ------------------------------------------------------------- helpers
\* a request comes in while the server has a free handler; which of the free
\* handlers runs it makes no difference, so the first one does
Accept(p) ==
    /\ pc[p] = "idle"
    /\ p = "r2" => pc["r1"] # "idle"
    /\ reqs < MaxReqs
    /\ reqs' = reqs + 1

\* the handler goes on to its next store call
Goto(p, label, l) ==
    /\ pc' = [pc EXCEPT ![p] = label]
    /\ loc' = [loc EXCEPT ![p] = l]
    /\ UNCHANGED out

\* c.JSON(status, ...) followed by return: the handler ends, its transaction
\* handle and locals go out of scope.
Respond(p, op, l, status, post) ==
    /\ pc' = [pc EXCEPT ![p] = "idle"]
    /\ out' = [NoOut EXCEPT !.op = op, !.id = l.id, !.status = status, !.post = post,
                            !.floor = l.floor, !.afterDel = l.afterDel]
    /\ loc' = [loc EXCEPT ![p] = NoLoc]

\* a call to a store returns an error (the service is down, the connection
\* breaks, the call times out): any call may
Fault == failed' = (failed \/ observe)

\* the call goes through
NoFault == failed' = failed

\* (a rollback that leaves the transaction's writes in the tables, as if they
\* had been made with h.DB instead of tx)
RollbackLeak(p) ==
    /\ posts' = [i \in PostIds |->
                    IF loc[p].tx.post.id = i THEN loc[p].tx.post
                    ELSE IF loc[p].tx.delPost /\ loc[p].id = i THEN NoPost
                    ELSE posts[i]]
    /\ logs' = {l \in logs : l.id \notin loc[p].tx.delLogs}

\* tx.Rollback(): nothing the transaction wrote reaches the tables
Rollback(p) == UNCHANGED store

\* rows of activity_logs with post_id = id
LogsOf(id) == {l \in logs : l.post_id = id}

\* another open transaction holds the row lock of posts.id (its DELETE is
\* not committed yet): a writer of that row waits for it
PostRowLocked(p, id) ==
    \E q \in Procs \ {p} : loc[q].id = id /\ loc[q].tx.delPost

\* another open transaction has deleted some of these activity_logs rows
LogRowsLocked(p, rows) ==
    \E q \in Procs \ {p} : loc[q].tx.delLogs \cap {l.id : l \in rows} # {}

\* `go h.indexPostInES(post)` / `go h.deletePostFromES(id)`
Go(kind, id, doc) == Append(tasks, [kind |-> kind, id |-> id, doc |-> doc])

\* h.Redis.Del(ctx, cacheKey) took effect: from here on the cache may only
\* hold what the store holds for the id now or later
Invalidate(id) ==
    /\ cache' = [cache EXCEPT ![id] = NoEntry]
    /\ invalFloor' = [invalFloor EXCEPT ![id] =
                        IF ~observe THEN @
                        ELSE IF posts[id] # NoPost THEN posts[id].updated_at ELSE clock + 1]

\* ---------------------------------------------------------------- CreatePost
\* c.ShouldBindJSON(&req): title and content are required
BindOk(body) == body.title # "" /\ body.content # ""

\* POST /posts: c.ShouldBindJSON(&req), h.DB.Begin(), post := models.Post{...}
\* (the model stops accepting creates when posts_id_seq would pass the ids
\* the tables are kept for: MaxPosts, but for InitIdentity)
CreateBegin(p) ==
    /\ Accept(p)
    /\ postSeq + Cardinality({q \in Procs : pc[q] = "create_post"}) < Cardinality(DOMAIN posts)
    /\ UNCHANGED <<posts, logs, postSeq, logSeq, clock, cache, es, tasks, hist>>
    /\ \E body \in CreateBodies :
          \/ /\ ~BindOk(body)
             /\ UNCHANGED failed
             /\ Respond(p, "create", NoLoc, 400, NoPost)
          \/ /\ BindOk(body)
             /\ Fault
             /\ Respond(p, "create", NoLoc, 500, NoPost)
          \/ /\ BindOk(body)
             /\ NoFault
             /\ Goto(p, "create_post",
                     [NoLoc EXCEPT !.post = Post(0, body.title, body.content, body.tags, 0, 0)])

\* (an insert that takes the lowest id no row holds instead of the next
\* value of the sequence)
CreateInsertPostReuse(p) ==
    /\ pc[p] = "create_post"
    /\ UNCHANGED <<cache, es, tasks, reqs, logSeq, hist>>
    /\ \/ /\ Fault
          /\ Rollback(p)
          /\ Respond(p, "create", loc[p], 500, NoPost)
          /\ UNCHANGED <<postSeq, clock>>
       \/ /\ NoFault
          /\ postSeq' = postSeq + 1
          /\ clock' = clock + 1
          /\ LET free == {i \in DOMAIN posts : posts[i] = NoPost} \cup {postSeq + 1}
                 id == CHOOSE i \in free : \A j \in free : i <= j
                 post == [loc[p].post EXCEPT !.id = id, !.created_at = clock + 1,
                                             !.updated_at = clock + 1]
             IN Goto(p, "create_log", [loc[p] EXCEPT !.post = post, !.tx.post = post])
          /\ UNCHANGED store

\* tx.Create(&post): the row is written inside the transaction; the sequence
\* gives the id, CreatedAt and UpdatedAt are stamped
CreateInsertPost(p) ==
    /\ pc[p] = "create_post"
    /\ UNCHANGED <<cache, es, tasks, reqs, logSeq, hist>>
    /\ \/ /\ Fault
          /\ Rollback(p)
          /\ Respond(p, "create", loc[p], 500, NoPost)
          /\ UNCHANGED <<postSeq, clock>>
       \/ /\ NoFault
          /\ postSeq' = postSeq + 1
          /\ clock' = clock + 1
          /\ LET post == [loc[p].post EXCEPT !.id = postSeq + 1, !.created_at = clock + 1,
                                             !.updated_at = clock + 1]
             IN Goto(p, "create_log", [loc[p] EXCEPT !.post = post, !.tx.post = post])
          /\ UNCHANGED store

\* tx.Create(&activityLog) with Action "new_post" and PostID &post.ID
CreateInsertLog(p) ==
    /\ pc[p] = "create_log"
    /\ UNCHANGED <<cache, es, tasks, reqs, postSeq, clock, hist>>
    /\ \/ /\ Fault
          /\ Rollback(p)
          /\ Respond(p, "create", loc[p], 500, NoPost)
          /\ UNCHANGED logSeq
       \/ /\ NoFault
          /\ logSeq' = logSeq + 1
          /\ Goto(p, "create_commit",
                  [loc[p] EXCEPT !.tx.log = ActivityLog(logSeq + 1, "new_post", loc[p].post.id)])
          /\ UNCHANGED store

\* (a commit that makes the log visible without the post)
CreateCommittedLogOnly(tx) ==
    <<posts, logs \cup {tx.log}>>

\* what tx.Commit() of CreatePost makes visible
CreateCommitted(tx) ==
    <<[posts EXCEPT ![tx.post.id] = tx.post], logs \cup {tx.log}>>

\* (a CreatePost that starts indexPostInES before it looks at the result of
\* the commit)
CreateCommitDispatched(p) ==
    /\ pc[p] = "create_commit"
    /\ UNCHANGED <<cache, es, reqs, postSeq, logSeq, clock, hist>>
    /\ \/ /\ Fault
          /\ UNCHANGED store
          /\ tasks' = Go("index", loc[p].post.id, PostSearchResult(loc[p].post))
          /\ Respond(p, "create", loc[p], 500, NoPost)
       \/ /\ NoFault
          /\ UNCHANGED tasks
          /\ posts' = CreateCommitted(loc[p].tx)[1]
          /\ logs' = CreateCommitted(loc[p].tx)[2]
          /\ Goto(p, "create_respond", [loc[p] EXCEPT !.tx = NoTx])

\* tx.Commit()
CreateCommit(p) ==
    /\ pc[p] = "create_commit"
    /\ UNCHANGED <<cache, es, tasks, reqs, postSeq, logSeq, clock,
                   observe, retUpd, delRet, retIds, invalFloor>>
    /\ \/ /\ Fault
          /\ UNCHANGED <<store, written>>
          /\ Respond(p, "create", loc[p], 500, NoPost)
       \/ /\ NoFault
          /\ posts' = CreateCommitted(loc[p].tx)[1]
          /\ logs' = CreateCommitted(loc[p].tx)[2]
          /\ written' = IF observe THEN written \cup {loc[p].tx.post} ELSE written
          /\ Goto(p, "create_respond", [loc[p] EXCEPT !.tx = NoTx])

\* go h.indexPostInES(post); c.JSON(http.StatusCreated, post)
CreateRespond(p) ==
    /\ pc[p] = "create_respond"
    /\ tasks' = Go("index", loc[p].post.id, PostSearchResult(loc[p].post))
    /\ Respond(p, "create", loc[p], 201, loc[p].post)
    /\ retIds' = IF observe THEN retIds \cup {loc[p].post.id} ELSE retIds
    /\ UNCHANGED <<posts, logs, postSeq, logSeq, clock, cache, es, reqs, failed,
                   observe, retUpd, delRet, written, invalFloor>>

\* ------------------------------------------------------------------- GetPost
\* GET /posts/:id: h.Redis.Get(ctx, cacheKey) and json.Unmarshal of a hit
GetCache(p) ==
    /\ Accept(p)
    /\ UNCHANGED <<posts, logs, postSeq, logSeq, clock, cache, es, tasks, hist>>
    /\ \E id \in PostIds :
          LET l == [NoLoc EXCEPT !.id = id, !.floor = retUpd[id], !.afterDel = delRet[id]]
          IN \/ /\ cache[id] # NoEntry /\ UnmarshalOk(cache[id])
                /\ NoFault
                /\ Respond(p, "get", l, 200, Unmarshal(cache[id]))
             \/ /\ cache[id] = NoEntry \/ ~UnmarshalOk(cache[id])
                /\ NoFault
                /\ Goto(p, "get_db", l)
             \/ /\ Fault
                /\ Goto(p, "get_db", l)

\* h.DB.First(&post, id): any error is answered 404
GetDB(p) ==
    /\ pc[p] = "get_db"
    /\ UNCHANGED <<posts, logs, postSeq, logSeq, clock, cache, es, tasks, reqs, hist>>
    /\ LET id == loc[p].id
       IN \/ /\ posts[id] # NoPost
             /\ NoFault
             /\ Goto(p, "get_set", [loc[p] EXCEPT !.post = posts[id]])
          \/ /\ posts[id] = NoPost
             /\ NoFault
             /\ Respond(p, "get", loc[p], 404, NoPost)
          \/ /\ Fault
             /\ Respond(p, "get", loc[p], 404, NoPost)

\* (a GetPost that leaves the cache as it is)
GetSetSkip(p) ==
    /\ pc[p] = "get_set"
    /\ UNCHANGED <<posts, logs, postSeq, logSeq, clock, cache, es, tasks, reqs, hist>>
    /\ Respond(p, "get", loc[p], 200, loc[p].post)
    /\ \/ NoFault
       \/ Fault

\* (a GetPost that reports a failed h.Redis.Set to the caller)
GetSetStrict(p) ==
    /\ pc[p] = "get_set"
    /\ UNCHANGED <<posts, logs, postSeq, logSeq, clock, es, tasks, reqs, hist>>
    /\ \/ /\ NoFault
          /\ cache' = [cache EXCEPT ![loc[p].id] = Marshal(loc[p].post)]
          /\ Respond(p, "get", loc[p], 200, loc[p].post)
       \/ /\ Fault
          /\ UNCHANGED cache
          /\ Respond(p, "get", loc[p], 500, NoPost)

\* h.Redis.Set(ctx, cacheKey, postJSON, 5*time.Minute); c.JSON(200, post)
GetSet(p) ==
    /\ pc[p] = "get_set"
    /\ UNCHANGED <<posts, logs, postSeq, logSeq, clock, es, tasks, reqs, hist>>
    /\ Respond(p, "get", loc[p], 200, loc[p].post)
    /\ \/ /\ NoFault
          /\ cache' = [cache EXCEPT ![loc[p].id] = Marshal(loc[p].post)]
       \/ /\ Fault
          /\ UNCHANGED cache

\* the 5 minute expiry of a cached entry
CacheExpire(id) ==
    /\ cache[id] # NoEntry
    /\ cache' = [cache EXCEPT ![id] = NoEntry]
    /\ UNCHANGED <<posts, logs, postSeq, logSeq, clock, es, tasks, pc, loc, out,
                   reqs, failed, hist>>

\* ---------------------------------------------------------------- UpdatePost
\* "Update fields if provided"
Overlay(post, req) ==
    [post EXCEPT !.title = IF req.title # "" THEN req.title ELSE @,
                 !.content = IF req.content # "" THEN req.content ELSE @,
                 !.tags = IF ~req.tagsNil THEN req.tags ELSE @]

\* PUT /posts/:id: h.DB.First(&post, id) (any error is answered 404), then
\* the overlay of the request's fields
UpdateLookup(p, id, body) ==
    LET l == [NoLoc EXCEPT !.id = id]
    IN \/ /\ posts[id] # NoPost
          /\ NoFault
          /\ Goto(p, "update_save", [l EXCEPT !.post = Overlay(posts[id], body)])
       \/ /\ posts[id] = NoPost
          /\ NoFault
          /\ Respond(p, "update", l, 404, NoPost)
       \/ /\ Fault
          /\ Respond(p, "update", l, 404, NoPost)

\* PUT /posts/:id comes in
UpdateFirst(p) ==
    /\ Accept(p)
    /\ UNCHANGED <<posts, logs, postSeq, logSeq, clock, cache, es, tasks, hist>>
    /\ \E id \in PostIds, body \in UpdateBodies : UpdateLookup(p, id, body)

\* the same for a request that was bound when the behaviour starts
UpdateBound(p) ==
    /\ pc[p] = "update_bound"
    /\ UNCHANGED <<posts, logs, postSeq, logSeq, clock, cache, es, tasks, reqs, hist>>
    /\ UpdateLookup(p, loc[p].id, loc[p].req)

\* the table after h.DB.Save(&post): gorm's Save writes every column of the
\* row with that primary key and, when no row matched, inserts the struct
Saved(post) == [posts EXCEPT ![post.id] = post]

\* h.DB.Save(&post); UpdatedAt is stamped by the save
UpdateSave(p) ==
    /\ pc[p] = "update_save"
    /\ ~PostRowLocked(p, loc[p].id)
    /\ UNCHANGED <<logs, postSeq, logSeq, cache, es, tasks, reqs,
                   observe, retUpd, delRet, retIds, invalFloor>>
    /\ \/ /\ Fault
          /\ Respond(p, "update", loc[p], 500, NoPost)
          /\ UNCHANGED <<posts, clock, written>>
       \/ /\ NoFault
          /\ clock' = clock + 1
          /\ LET post == [loc[p].post EXCEPT !.updated_at = clock + 1]
             IN /\ posts' = Saved(post)
                /\ written' = IF observe THEN written \cup {post} ELSE written
                /\ Goto(p, "update_inval", [loc[p] EXCEPT !.post = post])

\* (an UpdatePost that puts the row it saved under the key instead of
\* deleting the key)
UpdateInvalidateWriteThrough(p) ==
    /\ pc[p] = "update_inval"
    /\ Goto(p, "update_respond", loc[p])
    /\ UNCHANGED <<posts, logs, postSeq, logSeq, clock, es, tasks, reqs, hist>>
    /\ \/ /\ NoFault
          /\ cache' = [cache EXCEPT ![loc[p].id] = Marshal(loc[p].post)]
       \/ /\ Fault
          /\ UNCHANGED cache

\* h.Redis.Del(ctx, cacheKey); its error is not looked at
UpdateInvalidate(p) ==
    /\ pc[p] = "update_inval"
    /\ Goto(p, "update_respond", loc[p])
    /\ UNCHANGED <<posts, logs, postSeq, logSeq, clock, es, tasks, reqs,
                   observe, retUpd, delRet, retIds, written>>
    /\ \/ /\ NoFault
          /\ Invalidate(loc[p].id)
       \/ /\ Fault
          /\ UNCHANGED <<cache, invalFloor>>

\* go h.indexPostInES(post); c.JSON(http.StatusOK, post)
UpdateRespond(p) ==
    /\ pc[p] = "update_respond"
    /\ tasks' = Go("index", loc[p].post.id, PostSearchResult(loc[p].post))
    /\ Respond(p, "update", loc[p], 200, loc[p].post)
    /\ retUpd' = [retUpd EXCEPT ![loc[p].id] =
                    IF observe /\ loc[p].post.updated_at > @ THEN loc[p].post.updated_at ELSE @]
    /\ UNCHANGED <<posts, logs, postSeq, logSeq, clock, cache, es, reqs, failed,
                   observe, delRet, retIds, written, invalFloor>>

\* ---------------------------------------------------------------- DeletePost
\* (a DeletePost that drops the cache entry before it looks the post up)
DeleteBeginEager(p) ==
    /\ Accept(p)
    /\ UNCHANGED <<posts, logs, postSeq, logSeq, clock, es, tasks, hist>>
    /\ \E id \in PostIds :
          LET l == [NoLoc EXCEPT !.id = id]
          IN /\ cache' = [cache EXCEPT ![id] = NoEntry]
             /\ \/ /\ Fault
                   /\ Respond(p, "delete", l, 500, NoPost)
                \/ /\ NoFault
                   /\ Goto(p, "delete_first", l)

\* DELETE /posts/:id: h.DB.Begin()
DeleteBegin(p) ==
    /\ Accept(p)
    /\ UNCHANGED <<posts, logs, postSeq, logSeq, clock, cache, es, tasks, hist>>
    /\ \E id \in PostIds :
          LET l == [NoLoc EXCEPT !.id = id]
          IN \/ /\ Fault
                /\ Respond(p, "delete", l, 500, NoPost)
             \/ /\ NoFault
                /\ Goto(p, "delete_first", l)

\* (a lookup that takes every id to be there)
FoundAlways(id) == TRUE

\* tx.First(&post, id) finds the row
Found(id) == posts[id] # NoPost

\* tx.First(&post, id): any error rolls back and is answered 404
DeleteFirst(p) ==
    /\ pc[p] = "delete_first"
    /\ UNCHANGED <<postSeq, logSeq, clock, cache, es, tasks, reqs, hist>>
    /\ LET id == loc[p].id
       IN \/ /\ Found(id)
             /\ NoFault
             /\ Goto(p, "delete_logs", [loc[p] EXCEPT !.post = posts[id]])
             /\ UNCHANGED store
          \/ /\ ~Found(id)
             /\ NoFault
             /\ Rollback(p)
             /\ Respond(p, "delete", loc[p], 404, NoPost)
          \/ /\ Fault
             /\ Rollback(p)
             /\ Respond(p, "delete", loc[p], 404, NoPost)

\* (a delete that leaves the post's activity logs in place)
RelatedLogsKept(id) == {}

\* the rows tx.Where("post_id = ?", id).Delete(&models.ActivityLog{}) deletes
RelatedLogs(id) == {l.id : l \in LogsOf(id)}

\* tx.Where("post_id = ?", id).Delete(&models.ActivityLog{})
DeleteLogs(p) ==
    /\ pc[p] = "delete_logs"
    /\ ~LogRowsLocked(p, LogsOf(loc[p].id))
    /\ UNCHANGED <<postSeq, logSeq, clock, cache, es, tasks, reqs, hist>>
    /\ \/ /\ Fault
          /\ Rollback(p)
          /\ Respond(p, "delete", loc[p], 500, NoPost)
       \/ /\ NoFault
          /\ Goto(p, "delete_post", [loc[p] EXCEPT !.tx.delLogs = RelatedLogs(loc[p].id)])
          /\ UNCHANGED store

\* tx.Delete(&post): deletes the row if it is still there (no row is no error)
DeleteRow(p) ==
    /\ pc[p] = "delete_post"
    /\ ~PostRowLocked(p, loc[p].id)
    /\ UNCHANGED <<postSeq, logSeq, clock, cache, es, tasks, reqs, hist>>
    /\ \/ /\ Fault
          /\ Rollback(p)
          /\ Respond(p, "delete", loc[p], 500, NoPost)
       \/ /\ NoFault
          /\ Goto(p, "delete_log", [loc[p] EXCEPT !.tx.delPost = (posts[loc[p].id] # NoPost)])
          /\ UNCHANGED store

\* the row of INSERT INTO activity_logs (action, post_id) VALUES ($1, NULL)
DeletionLog(id) == ActivityLog(id, "delete_post", NullRef)

\* tx.Exec("INSERT INTO activity_logs (action, post_id) VALUES ($1, NULL)", "delete_post")
DeleteInsertLog(p) ==
    /\ pc[p] = "delete_log"
    /\ UNCHANGED <<postSeq, clock, cache, es, tasks, reqs, hist>>
    /\ \/ /\ Fault
          /\ Rollback(p)
          /\ Respond(p, "delete", loc[p], 500, NoPost)
          /\ UNCHANGED logSeq
       \/ /\ NoFault
          /\ logSeq' = logSeq + 1
          /\ Goto(p, "delete_commit", [loc[p] EXCEPT !.tx.log = DeletionLog(logSeq + 1)])
          /\ UNCHANGED store

\* what tx.Commit() of DeletePost makes visible
DeleteCommitted(id, tx) ==
    <<IF tx.delPost THEN [posts EXCEPT ![id] = NoPost] ELSE posts,
      {l \in logs : l.id \notin tx.delLogs} \cup {tx.log}>>

\* tx.Commit()
DeleteCommit(p) ==
    /\ pc[p] = "delete_commit"
    /\ UNCHANGED <<postSeq, logSeq, clock, cache, es, tasks, reqs, hist>>
    /\ \/ /\ Fault
          /\ UNCHANGED store
          /\ Respond(p, "delete", loc[p], 500, NoPost)
       \/ /\ NoFault
          /\ posts' = DeleteCommitted(loc[p].id, loc[p].tx)[1]
          /\ logs' = DeleteCommitted(loc[p].id, loc[p].tx)[2]
          /\ Goto(p, "delete_inval", [loc[p] EXCEPT !.tx = NoTx])

\* h.Redis.Del(ctx, cacheKey); its error is not looked at
DeleteInvalidate(p) ==
    /\ pc[p] = "delete_inval"
    /\ Goto(p, "delete_respond", loc[p])
    /\ UNCHANGED <<posts, logs, postSeq, logSeq, clock, es, tasks, reqs,
                   observe, retUpd, delRet, retIds, written>>
    /\ \/ /\ NoFault
          /\ Invalidate(loc[p].id)
       \/ /\ Fault
          /\ UNCHANGED <<cache, invalFloor>>

\* go h.deletePostFromES(uint(id)); c.JSON(http.StatusOK, ...)
DeleteRespond(p) ==
    /\ pc[p] = "delete_respond"
    /\ tasks' = Go("delete", loc[p].id, NoDoc)
    /\ Respond(p, "delete", loc[p], 200, NoPost)
    /\ delRet' = [delRet EXCEPT ![loc[p].id] = observe]
    /\ UNCHANGED <<posts, logs, postSeq, logSeq, clock, cache, es, reqs, failed,
                   observe, retUpd, retIds, written, invalFloor>>

\* -------------------------------------------------------- GetPostWithRelated
\* c.JSON(status, ...) of a response that carries a list
RespondItems(p, op, l, status, post, items) ==
    /\ pc' = [pc EXCEPT ![p] = "idle"]
    /\ out' = [NoOut EXCEPT !.op = op, !.id = l.id, !.status = status, !.post = post,
                            !.items = items]
    /\ loc' = [loc EXCEPT ![p] = NoLoc]

\* the ids of S in ascending order
RECURSIVE Ascending(_)
Ascending(S) ==
    IF S = {} THEN <<>>
    ELSE LET m == CHOOSE x \in S : \A y \in S : x <= y
         IN <<m>> \o Ascending(S \ {m})

\* elastic.NewTermQuery("tags", tag) on the keyword field tags
HasTag(doc, tag) == \E j \in DOMAIN doc.tags : doc.tags[j] = tag

\* (the bool query without its MustNot clause)
MatchingWithSelf(post) ==
    {i \in DOMAIN es :
        /\ es[i] # NoDoc
        /\ \E k \in DOMAIN post.tags : HasTag(es[i], post.tags[k])}

\* the documents the bool query matches: Should(term tags = t) for each tag
\* of the post, MinimumShouldMatch("1"), MustNot(term id = post.ID)
Matching(post) ==
    {i \in DOMAIN es :
        /\ es[i] # NoDoc
        /\ es[i].id # post.id
        /\ \E k \in DOMAIN post.tags : HasTag(es[i], post.tags[k])}

\* Size(5)
RelatedSize == 5

\* the sets of hits a search of the given size may return: all the documents
\* that match, or the best `size` of them, whichever these are
Hits(matching, size) ==
    IF Cardinality(matching) <= size THEN {matching}
    ELSE {h \in SUBSET matching : Cardinality(h) = size}

\* (the posts rebuilt from the documents of the hits)
RowsFromIndex(ids) ==
    LET a == Ascending({i \in ids : es[i] # NoDoc})
    IN [k \in 1..Len(a) |->
           Post(a[k], es[a[k]].title, es[a[k]].content, es[a[k]].tags, 0, 0)]

\* h.DB.Where("id IN ?", postIDs).Find(&relatedPosts): the rows there are,
\* here in the order of their ids
RowsIn(ids) ==
    LET a == Ascending({i \in ids : posts[i] # NoPost})
    IN [k \in 1..Len(a) |-> posts[a[k]]]

\* (a GetPostWithRelated that searches the index for a post without tags too)
RelatedFirstAlwaysSearch(p) ==
    /\ Accept(p)
    /\ UNCHANGED <<posts, logs, postSeq, logSeq, clock, cache, es, tasks, hist>>
    /\ \E id \in DOMAIN posts :
          LET l == [NoLoc EXCEPT !.id = id]
          IN \/ /\ posts[id] # NoPost
                /\ NoFault
                /\ Goto(p, "related_search", [l EXCEPT !.post = posts[id]])
             \/ /\ posts[id] = NoPost
                /\ NoFault
                /\ RespondItems(p, "related", l, 404, NoPost, <<>>)
             \/ /\ Fault
                /\ RespondItems(p, "related", l, 404, NoPost, <<>>)

\* (a GetPostWithRelated that takes the post from the cache when it is there)
RelatedFirstCached(p) ==
    /\ Accept(p)
    /\ UNCHANGED <<posts, logs, postSeq, logSeq, clock, cache, es, tasks, hist>>
    /\ \E id \in DOMAIN posts :
          LET l == [NoLoc EXCEPT !.id = id]
              post == IF cache[id] # NoEntry /\ UnmarshalOk(cache[id])
                      THEN Unmarshal(cache[id]) ELSE posts[id]
          IN \/ /\ post # NoPost
                /\ Len(post.tags) # 0
                /\ NoFault
                /\ Goto(p, "related_search", [l EXCEPT !.post = post])
             \/ /\ post # NoPost
                /\ Len(post.tags) = 0
                /\ NoFault
                /\ RespondItems(p, "related", l, 200, post, <<>>)
             \/ /\ post = NoPost
                /\ NoFault
                /\ RespondItems(p, "related", l, 404, NoPost, <<>>)
             \/ /\ Fault
                /\ RespondItems(p, "related", l, 404, NoPost, <<>>)

\* GET /posts/:id/related: h.DB.First(&post, id) (any error is answered 404);
\* findRelatedPosts returns at once for a post without tags
RelatedFirst(p) ==
    /\ Accept(p)
    /\ UNCHANGED <<posts, logs, postSeq, logSeq, clock, cache, es, tasks, hist>>
    /\ \E id \in DOMAIN posts :
          LET l == [NoLoc EXCEPT !.id = id]
          IN \/ /\ posts[id] # NoPost
                /\ Len(posts[id].tags) # 0
                /\ NoFault
                /\ Goto(p, "related_search", [l EXCEPT !.post = posts[id]])
             \/ /\ posts[id] # NoPost
                /\ Len(posts[id].tags) = 0
                /\ NoFault
                /\ RespondItems(p, "related", l, 200, posts[id], <<>>)
             \/ /\ posts[id] = NoPost
                /\ NoFault
                /\ RespondItems(p, "related", l, 404, NoPost, <<>>)
             \/ /\ Fault
                /\ RespondItems(p, "related", l, 404, NoPost, <<>>)

\* findRelatedPosts: h.ES.Search().Index("posts").Query(boolQuery).Size(5),
\* then the ids of the hits' sources
RelatedSearch(p) ==
    /\ pc[p] = "related_search"
    /\ UNCHANGED <<posts, logs, postSeq, logSeq, clock, cache, es, tasks, reqs, hist>>
    /\ \/ /\ Fault
          /\ RespondItems(p, "related", loc[p], 500, NoPost, <<>>)
       \/ /\ NoFault
          /\ \E hits \in Hits(Matching(loc[p].post), RelatedSize) :
                LET postIDs == {es[i].id : i \in hits}
                IN IF postIDs = {}
                   THEN RespondItems(p, "related", loc[p], 200, loc[p].post, <<>>)
                   ELSE Goto(p, "related_find", [loc[p] EXCEPT !.postIDs = postIDs])

\* (a re-fetch whose failure is answered with the post and no related posts)
RelatedFindDegraded(p) ==
    /\ pc[p] = "related_find"
    /\ UNCHANGED <<posts, logs, postSeq, logSeq, clock, cache, es, tasks, reqs, hist>>
    /\ \/ /\ Fault
          /\ RespondItems(p, "related", loc[p], 200, loc[p].post, <<>>)
       \/ /\ NoFault
          /\ RespondItems(p, "related", loc[p], 200, loc[p].post, RowsIn(loc[p].postIDs))

\* findRelatedPosts: h.DB.Where("id IN ?", postIDs).Find(&relatedPosts)
RelatedFind(p) ==
    /\ pc[p] = "related_find"
    /\ UNCHANGED <<posts, logs, postSeq, logSeq, clock, cache, es, tasks, reqs, hist>>
    /\ \/ /\ Fault
          /\ RespondItems(p, "related", loc[p], 500, NoPost, <<>>)
       \/ /\ NoFault
          /\ RespondItems(p, "related", loc[p], 200, loc[p].post, RowsIn(loc[p].postIDs))

\* ------------------------------------------------- id parameter and searches
\* strconv.ParseUint(c.Param("id"), 10, 32) fails in GetPost,
\* GetPostWithRelated, UpdatePost or DeletePost: 400 before anything else
BadId(p) ==
    /\ Accept(p)
    /\ UNCHANGED <<posts, logs, postSeq, logSeq, clock, cache, es, tasks, failed, hist>>
    /\ \E op \in {"get", "related", "update", "delete"} :
          Respond(p, op, NoLoc, 400, NoPost)

\* the values of the tag parameter of GET /posts/search-by-tag
TagParams == {"", "go", "web"}

\* (the posts rebuilt from the documents of the index that hold the tag)
RowsTaggedInIndex(tag) ==
    LET a == Ascending({i \in DOMAIN es : es[i] # NoDoc /\ HasTag(es[i], tag)})
    IN [k \in 1..Len(a) |->
           Post(a[k], es[a[k]].title, es[a[k]].content, es[a[k]].tags, 0, 0)]

\* h.DB.Where("tags @> ARRAY[?]", tag).Find(&posts): the rows whose tags
\* hold the tag, here in the order of their ids
RowsTagged(tag) ==
    LET a == Ascending({i \in DOMAIN posts :
                          posts[i] # NoPost /\ HasTag(posts[i], tag)})
    IN [k \in 1..Len(a) |-> posts[a[k]]]

\* c.JSON(http.StatusOK, gin.H{"posts": posts, "count": len(posts)})
RespondTagged(p, tag, found) ==
    /\ pc' = [pc EXCEPT ![p] = "idle"]
    /\ out' = [NoOut EXCEPT !.op = "search_by_tag", !.status = 200, !.items = found,
                            !.count = Len(found), !.tag = tag]
    /\ loc' = [loc EXCEPT ![p] = NoLoc]

\* GET /posts/search-by-tag
SearchPostsByTag(p) ==
    /\ Accept(p)
    /\ UNCHANGED <<posts, logs, postSeq, logSeq, clock, cache, es, tasks, hist>>
    /\ \E tag \in TagParams :
          \/ /\ tag = ""
             /\ UNCHANGED failed
             /\ RespondItems(p, "search_by_tag", NoLoc, 400, NoPost, <<>>)
          \/ /\ tag # ""
             /\ Fault
             /\ RespondItems(p, "search_by_tag", NoLoc, 500, NoPost, <<>>)
          \/ /\ tag # ""
             /\ NoFault
             /\ RespondTagged(p, tag, RowsTagged(tag))

\* the values of the q parameter of GET /posts/search
QueryParams == {"", "A", "old"}

\* Size(50)
SearchSize == 50

\* elastic.NewMultiMatchQuery(query, "title", "content"): the documents whose
\* title or content holds the query term (the terms here are single words,
\* too short for the AUTO fuzziness to allow an edit)
Searched(query) ==
    {i \in DOMAIN es : es[i] # NoDoc /\ (es[i].title = query \/ es[i].content = query)}

\* GET /posts/search
SearchPosts(p) ==
    /\ Accept(p)
    /\ UNCHANGED <<posts, logs, postSeq, logSeq, clock, cache, es, tasks, hist>>
    /\ \E query \in QueryParams :
          \/ /\ query = ""
             /\ UNCHANGED failed
             /\ RespondItems(p, "search", NoLoc, 400, NoPost, <<>>)
          \/ /\ query # ""
             /\ Fault
             /\ RespondItems(p, "search", NoLoc, 500, NoPost, <<>>)
          \/ /\ query # ""
             /\ NoFault
             /\ \E hits \in Hits(Searched(query), SearchSize) :
                   LET a == Ascending(hits)
                   IN RespondItems(p, "search", NoLoc, 200, NoPost,
                                   [k \in 1..Len(a) |-> es[a[k]]])

\* ------------------------------------------- GetAllPosts and GetActivityLogs
MaxInt == 2 ^ (IntBits - 1) - 1

\* two's complement wrap-around of Go's int arithmetic
WrapInt(x) == ((x + 2 ^ (IntBits - 1)) % (2 ^ IntBits)) - 2 ^ (IntBits - 1)

\* a query parameter: absent, text that is no number, or a number
NoParam == [kind |-> "absent", n |-> 0]

Text == [kind |-> "text", n |-> 0]

Num(n) == [kind |-> "num", n |-> n]

\* the page and limit parameters the list handlers are called with
PageParams == {NoParam, Text, Num(0), Num(1), Num(2), Num(MaxRows + 1), Num(MaxInt)}

LimitParams == {NoParam, Text, Num(0), Num(1), Num(2), Num(100), Num(101)}

\* c.DefaultQuery(key, def): the parameter, or the default when it is absent
DefaultQuery(q, def) == IF q.kind = "absent" THEN Num(def) ELSE q

\* page, err := strconv.Atoi(pageStr); if err != nil || page < 1 { page = 1 }
PageOf(q) ==
    LET v == DefaultQuery(q, 1)
    IN IF v.kind # "num" \/ v.n < 1 THEN 1 ELSE v.n

\* limit, err := strconv.Atoi(limitStr);
\* if err != nil || limit < 1 || limit > 100 { limit = def }
LimitOf(q, def) ==
    LET v == DefaultQuery(q, def)
    IN IF v.kind # "num" \/ v.n < 1 \/ v.n > 100 THEN def ELSE v.n

\* offset := (page - 1) * limit
Offset(page, limit) == WrapInt((page - 1) * limit)

\* .Offset(offset).Limit(limit).Find(...) over the ordered rows: gorm writes
\* the OFFSET clause only for an offset above 0
Window(rows, offset, limit) ==
    LET from == IF offset > 0 THEN offset ELSE 0
        upto == IF from + limit < Len(rows) THEN from + limit ELSE Len(rows)
    IN SubSeq(rows, from + 1, upto)

\* (the pagination block with the total pages rounded down)
PaginationFloor(page, limit, total) ==
    LET totalPages == total \div limit
    IN [current_page |-> page, total_pages |-> totalPages, total_count |-> total,
        limit |-> limit, has_next |-> page < totalPages, has_prev |-> page > 1]

\* totalPages := int((total + int64(limit) - 1) / int64(limit)), hasNext,
\* hasPrev and the pagination block of the response
Pagination(page, limit, total) ==
    LET totalPages == (total + limit - 1) \div limit
    IN [current_page |-> page, total_pages |-> totalPages, total_count |-> total,
        limit |-> limit, has_next |-> page < totalPages, has_prev |-> page > 1]

\* c.JSON(http.StatusOK, gin.H{..., "pagination": ...})
RespondPage(p, op, l, items) ==
    /\ pc' = [pc EXCEPT ![p] = "idle"]
    /\ out' = [NoOut EXCEPT !.op = op, !.status = 200, !.items = items,
                            !.pagination = Pagination(l.page, l.limit, l.total)]
    /\ loc' = [loc EXCEPT ![p] = NoLoc]

\* Order("created_at DESC"): the rows of posts, newest first (rows created
\* at the same instant by id)
RECURSIVE NewestFirst(_)
NewestFirst(S) ==
    IF S = {} THEN <<>>
    ELSE LET m == CHOOSE x \in S : \A y \in S :
                     \/ posts[x].created_at > posts[y].created_at
                     \/ posts[x].created_at = posts[y].created_at /\ x >= y
         IN <<posts[m]>> \o NewestFirst(S \ {m})

\* the default page size of GET /posts
PostsLimit == 10

\* GET /posts: the parameters, then h.DB.Model(&models.Post{}).Count(&total)
GetAllPostsCount(p) ==
    /\ Accept(p)
    /\ UNCHANGED <<posts, logs, postSeq, logSeq, clock, cache, es, tasks, hist>>
    /\ \E page \in PageParams, limit \in LimitParams :
          LET l == [NoLoc EXCEPT !.page = PageOf(page), !.limit = LimitOf(limit, PostsLimit),
                                 !.req = [page |-> page, limit |-> limit]]
          IN \/ /\ Fault
                /\ RespondItems(p, "list_posts", NoLoc, 500, NoPost, <<>>)
             \/ /\ NoFault
                /\ Goto(p, "posts_find",
                        [l EXCEPT !.total = Cardinality({i \in DOMAIN posts : posts[i] # NoPost})])

\* h.DB.Order("created_at DESC").Offset(offset).Limit(limit).Find(&posts)
GetAllPostsFind(p) ==
    /\ pc[p] = "posts_find"
    /\ UNCHANGED <<posts, logs, postSeq, logSeq, clock, cache, es, tasks, reqs, hist>>
    /\ \/ /\ Fault
          /\ RespondItems(p, "list_posts", NoLoc, 500, NoPost, <<>>)
       \/ /\ NoFault
          /\ RespondPage(p, "list_posts", loc[p],
                         Window(NewestFirst({i \in DOMAIN posts : posts[i] # NoPost}),
                                Offset(loc[p].page, loc[p].limit), loc[p].limit))

\* Order("logged_at DESC"): the rows of activity_logs, latest first; the rows
\* carry no logged_at here and are taken in the order of their ids
RECURSIVE LatestFirst(_)
LatestFirst(S) ==
    IF S = {} THEN <<>>
    ELSE LET m == CHOOSE x \in S : \A y \in S : x.id >= y.id
         IN <<m>> \o LatestFirst(S \ {m})

\* the default page size of GET /activity-logs
LogsLimit == 20

\* GET /activity-logs: the parameters, then
\* h.DB.Model(&models.ActivityLog{}).Count(&total)
GetActivityLogsCount(p) ==
    /\ Accept(p)
    /\ UNCHANGED <<posts, logs, postSeq, logSeq, clock, cache, es, tasks, hist>>
    /\ \E page \in PageParams, limit \in LimitParams :
          LET l == [NoLoc EXCEPT !.page = PageOf(page), !.limit = LimitOf(limit, LogsLimit),
                                 !.req = [page |-> page, limit |-> limit]]
          IN \/ /\ Fault
                /\ RespondItems(p, "list_logs", NoLoc, 500, NoPost, <<>>)
             \/ /\ NoFault
                /\ Goto(p, "logs_find", [l EXCEPT !.total = Cardinality(logs)])

\* h.DB.Preload("Post").Order("logged_at DESC").Offset(offset).Limit(limit).Find(&logs)
GetActivityLogsFind(p) ==
    /\ pc[p] = "logs_find"
    /\ UNCHANGED <<posts, logs, postSeq, logSeq, clock, cache, es, tasks, reqs, hist>>
    /\ \/ /\ Fault
          /\ RespondItems(p, "list_logs", NoLoc, 500, NoPost, <<>>)
       \/ /\ NoFault
          /\ RespondPage(p, "list_logs", loc[p],
                         Window(LatestFirst(logs), Offset(loc[p].page, loc[p].limit),
                                loc[p].limit))

\* ------------------------------------------------------------- goroutines
\* (a goroutine whose end takes the goroutines still waiting with it)
FinishedCancelling(t) == <<>>

\* the goroutines left once goroutine t has run
Finished(t) == SubSeq(tasks, 1, t - 1) \o SubSeq(tasks, t + 1, Len(tasks))

\* (an indexPostInES whose failure takes the relational row back out)
IndexPostInESUndo(t) ==
    /\ t \in DOMAIN tasks
    /\ tasks[t].kind = "index"
    /\ tasks' = Finished(t)
    /\ UNCHANGED <<logs, postSeq, logSeq, clock, cache, pc, loc, out, reqs, hist>>
    /\ \/ /\ NoFault
          /\ es' = [es EXCEPT ![tasks[t].id] = tasks[t].doc]
          /\ UNCHANGED posts
       \/ /\ Fault
          /\ posts' = [posts EXCEPT ![tasks[t].id] = NoPost]
          /\ UNCHANGED es

\* indexPostInES: h.ES.Index().Index("posts").Id(post.ID).BodyJson(doc).Do(ctx)
IndexPostInES(t) ==
    /\ t \in DOMAIN tasks
    /\ tasks[t].kind = "index"
    /\ tasks' = Finished(t)
    /\ UNCHANGED <<posts, logs, postSeq, logSeq, clock, cache, pc, loc, out, reqs, hist>>
    /\ \/ /\ NoFault
          /\ es' = [es EXCEPT ![tasks[t].id] = tasks[t].doc]
       \/ /\ Fault
          /\ UNCHANGED es

\* deletePostFromES: h.ES.Delete().Index("posts").Id(postID).Do(ctx); deleting
\* an id the index does not hold is answered 404, which Do returns as an error
\* like any other, and the index stays as it is
DeletePostFromES(t) ==
    /\ t \in DOMAIN tasks
    /\ tasks[t].kind = "delete"
    /\ tasks' = Finished(t)
    /\ UNCHANGED <<posts, logs, postSeq, logSeq, clock, cache, pc, loc, out, reqs, hist>>
    /\ \/ /\ NoFault
          /\ es[tasks[t].id] # NoDoc
          /\ es' = [es EXCEPT ![tasks[t].id] = NoDoc]
       \/ /\ es[tasks[t].id] = NoDoc
          /\ Fault
          /\ UNCHANGED es
       \/ /\ Fault
          /\ UNCHANGED es

\* ------------------------------------------------------------ specification
Next ==
    \/ \E p \in Procs : CreateBegin(p)
    \/ \E p \in Procs : CreateInsertPost(p)
    \/ \E p \in Procs : CreateInsertLog(p)
    \/ \E p \in Procs : CreateCommit(p)
    \/ \E p \in Procs : CreateRespond(p)
    \/ \E p \in Procs : GetCache(p)
    \/ \E p \in Procs : GetDB(p)
    \/ \E p \in Procs : GetSet(p)
    \/ \E id \in PostIds : CacheExpire(id)
    \/ \E p \in Procs : UpdateFirst(p)
    \/ \E p \in Procs : UpdateSave(p)
    \/ \E p \in Procs : UpdateInvalidate(p)
    \/ \E p \in Procs : UpdateRespond(p)
    \/ \E p \in Procs : DeleteBegin(p)
    \/ \E p \in Procs : DeleteFirst(p)
    \/ \E p \in Procs : DeleteLogs(p)
    \/ \E p \in Procs : DeleteRow(p)
    \/ \E p \in Procs : DeleteInsertLog(p)
    \/ \E p \in Procs : DeleteCommit(p)
    \/ \E p \in Procs : DeleteInvalidate(p)
    \/ \E p \in Procs : DeleteRespond(p)
    \/ \E t \in 1..MaxReqs : IndexPostInES(t)
    \/ \E t \in 1..MaxReqs : DeletePostFromES(t)

\* the handlers and goroutines, history not recorded
Spec == Init /\ [][Next]_vars

\* the same, with retUpd, delRet and invalFloor recorded
SpecHist == InitHist /\ [][Next]_vars

\* the same, history recorded, starting with new tables
SpecHistNew == InitHistNew /\ [][Next]_vars

\* the handlers and goroutines, starting with new tables
SpecNew == InitNew /\ [][Next]_vars

\* the same, history recorded, over tables CreatePost can fill twice
SpecIdentity == InitIdentity /\ [][Next]_vars

\* a goroutine started with `go` is run by the Go scheduler, and its one
\* call to Elasticsearch returns, with or without an error
GoroutinesRun ==
    WF_vars(\E t \in 1..MaxReqs : IndexPostInES(t) \/ DeletePostFromES(t))

\* the handlers and goroutines, starting with new tables, the goroutines
\* being scheduled
SpecLive == InitNew /\ [][Next]_vars /\ GoroutinesRun

\* UpdatePost alone
NextOverlay ==
    \/ \E p \in Procs : UpdateBound(p)
    \/ \E p \in Procs : UpdateSave(p)
    \/ \E p \in Procs : UpdateInvalidate(p)
    \/ \E p \in Procs : UpdateRespond(p)
    \/ \E t \in 1..MaxReqs : IndexPostInES(t)

\* one update over a drawn row and request body
SpecOverlay == InitOverlay /\ [][NextOverlay]_vars

\* the handlers that only read
NextReads ==
    \/ \E p \in Procs : RelatedFirst(p)
    \/ \E p \in Procs : RelatedSearch(p)
    \/ \E p \in Procs : RelatedFind(p)
    \/ \E p \in Procs : BadId(p)
    \/ \E p \in Procs : SearchPostsByTag(p)
    \/ \E p \in Procs : SearchPosts(p)
    \/ \E p \in Procs : GetAllPostsCount(p)
    \/ \E p \in Procs : GetAllPostsFind(p)
    \/ \E p \in Procs : GetActivityLogsCount(p)
    \/ \E p \in Procs : GetActivityLogsFind(p)

\* one read request over tables and an index filled by earlier runs
SpecReads == InitReads /\ [][NextReads]_vars

\* every handler that reads: GetPost and the handlers of NextReads
NextReadOps ==
    \/ NextReads
    \/ \E p \in Procs : GetCache(p)
    \/ \E p \in Procs : GetDB(p)
    \/ \E p \in Procs : GetSet(p)

\* one read request over the tables and index of SpecReads and a cache that
\* may hold post 1
SpecReadOps == InitReadsCached /\ [][NextReadOps]_vars

\* every handler that can answer 400 or 404.  The tables hold at most
\* MaxPosts posts here, so the search of GetPostWithRelated finds no other
\* post and its last step has no rows to load; that step and the list
\* handlers, which answer 200 or 500 only, are taken under SpecReads.
NextAll ==
    \/ Next
    \/ \E p \in Procs : RelatedFirst(p)
    \/ \E p \in Procs : RelatedSearch(p)
    \/ \E p \in Procs : BadId(p)
    \/ \E p \in Procs : SearchPostsByTag(p)
    \/ \E p \in Procs : SearchPosts(p)

\* these handlers, starting with new tables
SpecAll == InitNew /\ [][NextAll]_vars

\* the same, with the history recorded
SpecHistAll == InitHistNew /\ [][NextAll]_vars

\* the handlers and goroutines over a cache that holds a damaged entry
SpecCorrupt == InitCorrupt /\ [][Next]_vars

\* ------------------------------------------------------------------ claims
\* no request is being served and no goroutine is left to run
Quiescent ==
    /\ \A p \in Procs : pc[p] = "idle"
    /\ tasks = <<>>

\* a GetPost of id is past its cache lookup
GetInFlight(id) == \E q \in Procs : pc[q] \in {"get_db", "get_set"} /\ loc[q].id = id

\* C1: in every committed state of the relational store a post with id X
\* exists if and only if an activity log "new_post" referencing X exists.
C1_Pairing ==
    \A x \in PostIds :
        posts[x] # NoPost <=> \E l \in logs : l.action = "new_post" /\ l.post_id = x

\* C2: a get-by-id that came in after an update of the id had responded
\* returns what that update wrote, or something newer (stated here for the
\* behaviours in which no store call has failed).
C2_ReadAfterWrite ==
    (out.op = "get" /\ out.status = 200 /\ ~failed) => out.post.updated_at >= out.floor

\* C3: a cached snapshot of X is a value the store held for X at or after the
\* last cache invalidation of X that took effect (stated here for the
\* behaviours in which no store call has failed).
C3_CacheFresh ==
    \A x \in PostIds :
        (cache[x] # NoEntry /\ UnmarshalOk(cache[x]) /\ ~failed)
            => Unmarshal(cache[x]).updated_at >= invalFloor[x]

\* C4: when an update or delete of X responds with success and no get-by-id
\* of X is in flight, the cache holds no entry for X (stated here for the
\* behaviours in which no store call has failed).
C4_NoEntryOnReturn ==
    [][\A p \in Procs :
          (/\ pc[p] \in {"update_respond", "delete_respond"}
           /\ pc'[p] = "idle"
           /\ ~failed
           /\ ~GetInFlight(loc[p].id)')
              => cache'[loc[p].id] = NoEntry]_vars

\* C5: a get-by-id that came in after a delete of the id had responded with
\* success is answered NotFound (stated here for the behaviours in which no
\* store call has failed).
C5_DeletedNotServed ==
    (out.op = "get" /\ out.afterDel /\ ~failed) => out.status = 404

\* a request is inside its relational transaction
InTx(p) ==
    pc[p] \in {"create_post", "create_log", "create_commit", "delete_first",
               "delete_logs", "delete_post", "delete_log", "delete_commit"}

\* C6: create and delete are atomic in the relational store.  A step of a
\* transaction changes the tables only when it is the successful commit, and
\* then all of the transaction's writes appear together (create: the post and
\* its new_post log; delete: the post gone, no log referencing it left, the
\* delete_post log added); a transaction that ends any other way leaves the
\* tables as they are and answers with an error.
C6_Atomic ==
    [][/\ \A p \in Procs :
             (InTx(p) /\ pc'[p] # pc[p]) =>
                \/ /\ pc'[p] = "create_respond"
                   /\ posts' = [posts EXCEPT ![loc[p].post.id] = loc[p].post]
                   /\ logs \subseteq logs'
                   /\ \E l \in logs' \ logs :
                         /\ logs' \ logs = {l}
                         /\ l.action = "new_post"
                         /\ l.post_id = loc[p].post.id
                \/ /\ pc'[p] = "delete_inval"
                   /\ posts' = [posts EXCEPT ![loc[p].id] = NoPost]
                   /\ \A l \in logs' : l.post_id # loc[p].id
                   /\ \E l \in logs' \ logs : l.action = "delete_post"
                \/ /\ pc'[p] = "idle"
                   /\ out'.status \in {404, 500}
                   /\ UNCHANGED store
                \/ /\ pc'[p] \notin {"idle", "create_respond", "delete_inval"}
                   /\ UNCHANGED store
       /\ (reqs' = reqs + 1 /\ pc' = pc /\ out'.op \in {"create", "delete"})
             => (out'.status \in {400, 500} /\ UNCHANGED store)]_vars

\* a delete transaction has gone through all of its statements, its commit
\* has failed, and the seeded post and its log are still there
C6_Witness ==
    /\ out.op = "delete"
    /\ out.status = 500
    /\ logSeq = 2
    /\ posts[1] = SeedPost
    /\ logs = {ActivityLog(1, "new_post", 1)}

\* C7: when a delete of X commits, no activity log references X any more and
\* exactly one row has been added, with action "delete_post" and a null post
\* reference.
C7_DeleteLogs ==
    [][\A p \in Procs :
          (pc[p] = "delete_commit" /\ pc'[p] = "delete_inval") =>
             /\ \A l \in logs' : l.post_id # loc[p].id
             /\ \E n \in logs' \ logs :
                   /\ logs' \ logs = {n}
                   /\ n.action = "delete_post"
                   /\ n.post_id = NullRef]_vars

\* a delete of the seeded post has responded: its new_post log is gone and
\* the delete_post log is there
C7_Witness ==
    /\ out.op = "delete"
    /\ out.status = 200
    /\ out.id = 1
    /\ logs = {ActivityLog(2, "delete_post", NullRef)}

\* a delete request ends in this step, and the post of its id was absent
\* before the step
DeleteOfAbsentEnds ==
    \/ /\ reqs' = reqs + 1
       /\ pc' = pc
       /\ out'.op = "delete"
       /\ posts[out'.id] = NoPost
    \/ \E p \in Procs :
          /\ pc[p] = "delete_first"
          /\ pc'[p] = "idle"
          /\ posts[loc[p].id] = NoPost

\* C8 as claimed: a delete of an id whose post is absent returns NotFound and
\* changes nothing in the relational store, the cache or the index.
C8_DeleteAbsentNotFound ==
    [][DeleteOfAbsentEnds =>
          (out'.status = 404 /\ UNCHANGED <<posts, logs, cache, es, tasks>>)]_vars

\* C8 as amended: a delete that looks up an id whose post is absent ends there
\* with NotFound; one whose transaction cannot be begun ends with a 500; in
\* neither case is anything changed in the relational store, the cache or
\* the index, and no goroutine is started.
C8_DeleteAbsent ==
    [][/\ \A p \in Procs :
             (pc[p] = "delete_first" /\ pc'[p] # pc[p] /\ posts[loc[p].id] = NoPost) =>
                /\ pc'[p] = "idle"
                /\ out'.op = "delete"
                /\ out'.status = 404
                /\ UNCHANGED <<posts, logs, cache, es, tasks>>
       /\ (reqs' = reqs + 1 /\ pc' = pc /\ out'.op = "delete" /\ posts[out'.id] = NoPost) =>
             (out'.status = 500 /\ UNCHANGED <<posts, logs, cache, es, tasks>>)]_vars

\* a second delete of the seeded post, after the first has committed, has
\* been answered NotFound
C8_Witness ==
    /\ out.op = "delete"
    /\ out.status = 404
    /\ out.id = 1
    /\ posts[1] = NoPost
    /\ ActivityLog(2, "delete_post", NullRef) \in logs

\* C9: once every goroutine has run without error and no request is in
\* flight, the document of each existing post is the projection of its row.
C9_IndexConverges ==
    (Quiescent /\ ~failed) =>
        \A x \in PostIds : posts[x] # NoPost => es[x] = PostSearchResult(posts[x])

\* C10: once a delete of X has committed, every goroutine has run without
\* error and no request is in flight, the index holds no document for X.
C10_IndexForgetsDeleted ==
    (Quiescent /\ ~failed) =>
        \A x \in PostIds : (posts[x] = NoPost /\ delRet[x]) => es[x] = NoDoc

\* C11: a failure of the cache or of an index goroutine does not change the
\* outcome of a create, update or delete.  Once the relational write is made,
\* the cache invalidation leads on to the response whatever Redis answers,
\* the response is the success response carrying the written post, and
\* neither the invalidation, the response nor a goroutine (failing or not)
\* touches the tables or a response.
C11_BestEffort ==
    [][/\ \A p \in Procs :
             /\ (pc[p] = "update_inval" /\ pc'[p] # pc[p]) =>
                   (pc'[p] = "update_respond" /\ loc'[p] = loc[p] /\ UNCHANGED store)
             /\ (pc[p] = "delete_inval" /\ pc'[p] # pc[p]) =>
                   (pc'[p] = "delete_respond" /\ loc'[p] = loc[p] /\ UNCHANGED store)
             /\ (pc[p] = "create_respond" /\ pc'[p] # pc[p]) =>
                   (out'.status = 201 /\ out'.post = loc[p].post /\ UNCHANGED store)
             /\ (pc[p] = "update_respond" /\ pc'[p] # pc[p]) =>
                   (out'.status = 200 /\ out'.post = loc[p].post /\ UNCHANGED store)
             /\ (pc[p] = "delete_respond" /\ pc'[p] # pc[p]) =>
                   (out'.status = 200 /\ out'.id = loc[p].id /\ UNCHANGED store)
       /\ Len(tasks') < Len(tasks) => UNCHANGED <<posts, logs, pc, loc, out>>]_vars

\* the only request served was an update of the seeded post; it was answered
\* 200, its row is written, its goroutine has run and the index still holds
\* the old document: the index write failed
C11_Witness ==
    /\ reqs = 1
    /\ out.op = "update"
    /\ out.status = 200
    /\ posts[1] = out.post
    /\ tasks = <<>>
    /\ es[1] = PostSearchResult(SeedPost)

\* C12: the cache never decides what get-by-id answers beyond a hit.  A
\* GetPost that responds from its cache lookup does so only with an entry
\* that deserializes; otherwise (read failed, miss, damaged entry) it goes on
\* to the relational read, answers NotFound when the row is absent, and
\* answers 200 with the row it read whether or not the cache write goes
\* through; no get is answered with any other status.
C12_CacheNeverSurfaces ==
    [][/\ (reqs' = reqs + 1 /\ pc' = pc /\ out'.op = "get") =>
             /\ cache[out'.id] # NoEntry
             /\ UnmarshalOk(cache[out'.id])
       /\ \A p \in Procs :
             /\ (pc[p] = "get_db" /\ pc'[p] # pc[p]) =>
                   \/ /\ pc'[p] = "get_set"
                      /\ posts[loc[p].id] # NoPost
                      /\ loc'[p].post = posts[loc[p].id]
                   \/ /\ pc'[p] = "idle"
                      /\ out'.op = "get"
                      /\ out'.status = 404
             /\ (pc[p] = "get_db" /\ pc'[p] # pc[p] /\ posts[loc[p].id] = NoPost) =>
                   pc'[p] = "idle"
             /\ (pc[p] = "get_set" /\ pc'[p] # pc[p]) =>
                   /\ out'.op = "get"
                   /\ out'.status = 200
                   /\ out'.post = loc[p].post
       /\ out'.op = "get" => out'.status \in {200, 404}]_vars

\* a post was created and then read: the cached bytes did not deserialize,
\* the row was read and returned, and the cache write failed (the damaged
\* bytes are still there)
C12_Witness ==
    /\ reqs = 2
    /\ out.op = "get"
    /\ out.status = 200
    /\ out.post # NoPost
    /\ out.post = posts[1]
    /\ cache[1] = Corrupt

\* C13: a GetPost whose cache lookup finds an entry that deserializes
\* responds at once with the cached snapshot, without going to the relational
\* store and without changing any store; one that misses reads the row and,
\* when it is there, writes its JSON under the post's key before it responds
\* with it (stated for the steps up to which no store call has failed: the
\* cache write is best effort).
C13_HitAndMiss ==
    [][/\ (reqs' = reqs + 1 /\ pc' = pc /\ out'.op = "get") =>
             /\ UnmarshalOk(cache[out'.id])
             /\ out'.status = 200
             /\ out'.post = Unmarshal(cache[out'.id])
             /\ UNCHANGED <<posts, logs, cache, es, tasks>>
       /\ \A p \in Procs :
             /\ (pc[p] = "idle" /\ pc'[p] = "get_db" /\ ~failed') =>
                   (cache[loc'[p].id] = NoEntry \/ ~UnmarshalOk(cache[loc'[p].id]))
             /\ (pc[p] = "get_db" /\ pc'[p] # pc[p] /\ ~failed'
                    /\ posts[loc[p].id] # NoPost) =>
                   (pc'[p] = "get_set" /\ loc'[p].post = posts[loc[p].id])
             /\ (pc[p] = "get_set" /\ pc'[p] # pc[p] /\ ~failed') =>
                   /\ cache' = [cache EXCEPT ![loc[p].id] = Marshal(loc[p].post)]
                   /\ out'.status = 200
                   /\ out'.post = loc[p].post]_vars

\* a post has been created and read and no store call has failed: the cache
\* holds the JSON of the row, and the last response is a get returning that
\* snapshot
C13_Witness ==
    /\ reqs = 3
    /\ ~failed
    /\ \A p \in Procs : pc[p] = "idle"
    /\ out.op = "get"
    /\ out.status = 200
    /\ cache[1] = Marshal(posts[1])
    /\ out.post = Unmarshal(cache[1])

\* C14: the related posts of a 200 response of GetPostWithRelated are at most
\* five and none of them is the queried post.
C14_RelatedBounded ==
    (out.op = "related" /\ out.status = 200) =>
        /\ Len(out.items) <= 5
        /\ \A k \in DOMAIN out.items : out.items[k].id # out.id

\* more than five documents match the tags of the queried post, whose own
\* document matches them too, and five related posts were returned
C14_Witness ==
    /\ out.op = "related"
    /\ out.status = 200
    /\ Len(out.items) = 5
    /\ Cardinality(Matching(out.post)) > 5
    /\ out.id \in MatchingWithSelf(out.post)

\* C15: every related post of a 200 response is a row of the posts table
\* with the row's title, content and tags, whatever the index holds for it.
C15_RelatedRehydrated ==
    (out.op = "related" /\ out.status = 200) =>
        \A k \in DOMAIN out.items :
            /\ posts[out.items[k].id] # NoPost
            /\ out.items[k] = posts[out.items[k].id]

\* related posts were returned although the index holds an older document
\* for one of them and a matching document of a post that was deleted
C15_Witness ==
    /\ out.op = "related"
    /\ out.status = 200
    /\ \E k \in DOMAIN out.items :
          es[out.items[k].id] # PostSearchResult(out.items[k])
    /\ \E i \in Matching(out.post) : posts[i] = NoPost

\* C16: the overlay of an update leaves the title unchanged for an absent or
\* empty title, the content unchanged for an absent or empty content, takes
\* a non-empty tag sequence as the new tags, and leaves the tags unchanged
\* when the tag sequence is absent or is an explicit empty sequence.
C16_Overlay ==
    [][\A p \in Procs :
          (pc[p] = "update_bound" /\ pc'[p] = "update_save") =>
             LET req == loc[p].req
                 old == posts[loc[p].id]
                 new == loc'[p].post
             IN /\ req.title = "" => new.title = old.title
                /\ req.content = "" => new.content = old.content
                /\ Len(req.tags) > 0 => new.tags = req.tags
                /\ (req.tagsNil \/ Len(req.tags) = 0) => new.tags = old.tags]_vars

\* C17: a request answered 400 or 404 has changed nothing.  Such an answer
\* is given either by the step that takes the request in or by the first
\* relational read of GetPost or DeletePost, and neither that step nor the
\* step that led to it changes the tables, the cache or the index or starts
\* a goroutine.
C17_ErrorFrame ==
    [][/\ (reqs' = reqs + 1 /\ pc' = pc /\ out'.status \in {400, 404}) =>
             UNCHANGED <<posts, logs, cache, es, tasks>>
       /\ \A p \in Procs :
             /\ (pc[p] # "idle" /\ pc'[p] = "idle" /\ out'.status \in {400, 404}) =>
                   /\ pc[p] \in {"get_db", "delete_first"}
                   /\ UNCHANGED <<posts, logs, cache, es, tasks>>
             /\ (pc[p] = "idle" /\ pc'[p] \in {"get_db", "delete_first"}) =>
                   UNCHANGED <<posts, logs, cache, es, tasks>>]_vars

\* the only request served was an update of an id the new tables do not
\* hold, and it was answered 404
C17_Witness ==
    /\ reqs = 1
    /\ out.op = "update"
    /\ out.status = 404
    /\ posts[out.id] = NoPost

\* C18: an answer 404 means that the post was absent; a relational read that
\* fails is answered 500.  Stated for the first request of a behaviour, where
\* the row that was looked up is the row the table still holds: answered
\* 404, the request asked for an id without a row.
C18_NotFoundMeansAbsent ==
    (reqs = 1 /\ out.status = 404) => posts[out.id] = NoPost

\* C19: a list response for a page beyond the last page carries an empty
\* list, has_next = false and the number of rows of the table as total_count.
C19_BeyondLastPage ==
    (/\ out.op \in {"list_posts", "list_logs"}
     /\ out.status = 200
     /\ out.pagination.current_page > out.pagination.total_pages) =>
        /\ out.items = <<>>
        /\ ~out.pagination.has_next
        /\ out.pagination.total_count =
              IF out.op = "list_posts"
              THEN Cardinality({i \in DOMAIN posts : posts[i] # NoPost})
              ELSE Cardinality(logs)

\* C20: the page a list handler works with is the requested page with a floor
\* of 1 (1 when absent or no number), and its page size is the requested size
\* clamped into [1,100] (the default, 10 for posts and 20 for activity logs,
\* when absent or no number).
C20_Normalised ==
    [][\A p \in Procs :
          (pc[p] = "idle" /\ pc'[p] \in {"posts_find", "logs_find"}) =>
             LET page == loc'[p].req.page
                 limit == loc'[p].req.limit
                 def == IF pc'[p] = "posts_find" THEN 10 ELSE 20
             IN /\ loc'[p].page =
                      IF page.kind # "num" THEN 1
                      ELSE IF page.n < 1 THEN 1 ELSE page.n
                /\ loc'[p].limit =
                      IF limit.kind # "num" THEN def
                      ELSE IF limit.n < 1 THEN 1
                      ELSE IF limit.n > 100 THEN 100 ELSE limit.n]_vars

\* C21: rows of activity_logs are never removed: the ids of the rows only
\* grow, and a row that referenced a post stays, with the reference it had or
\* with a null reference once the post is deleted.
C21_LogsOnlyGrow ==
    [][\A l \in logs :
          \E n \in logs' :
             /\ n.id = l.id
             /\ n.action = l.action
             /\ n.post_id \in {l.post_id, NullRef}]_vars

\* C22: a log that becomes visible with a non-null post reference references
\* a post that is in the posts table in that same state, under the id of the
\* reference.
C22_LogReferencesPost ==
    [][\A l \in logs' \ logs :
          l.post_id # NullRef =>
             /\ l.post_id \in DOMAIN posts'
             /\ posts'[l.post_id] # NoPost
             /\ posts'[l.post_id].id = l.post_id]_vars

\* a create has committed: its new_post log is visible and references the
\* post it made visible with it
C22_Witness ==
    \E p \in Procs :
        /\ pc[p] = "create_respond"
        /\ posts[loc[p].post.id] = loc[p].post
        /\ \E l \in logs : l.action = "new_post" /\ l.post_id = loc[p].post.id

\* C23: the identity of a post is stable.  The id a create responds with has
\* not been returned by an earlier create, and a row that stays in the posts
\* table keeps its id and its created_at, whatever is written to it.
C23_Identity ==
    [][/\ \A p \in Procs :
             (pc[p] = "create_respond" /\ pc'[p] = "idle") =>
                /\ out'.status = 201
                /\ out'.post.id # 0
                /\ out'.post.id \notin retIds
       /\ \A i \in DOMAIN posts :
             (posts[i] # NoPost /\ posts'[i] # NoPost) =>
                /\ posts'[i].id = posts[i].id
                /\ posts'[i].created_at = posts[i].created_at]_vars

\* two creates have responded, with two ids, and the row of post 1 has been
\* updated since it was created
C23_Witness ==
    /\ retIds = {1, 2}
    /\ posts[1] # NoPost
    /\ posts[1].updated_at > posts[1].created_at

\* C24: a tag search answered 200 returns exactly the posts the posts table
\* holds, at the moment it is served, with the tag among their tags, each
\* once, and their number as count, whatever the cache and the index hold.
C24_TagSearchExact ==
    [][(reqs' = reqs + 1 /\ pc' = pc /\ out'.op = "search_by_tag" /\ out'.status = 200) =>
          LET tagged == {posts[i] : i \in {j \in DOMAIN posts :
                             /\ posts[j] # NoPost
                             /\ \E k \in DOMAIN posts[j].tags : posts[j].tags[k] = out'.tag}}
          IN /\ {out'.items[k] : k \in DOMAIN out'.items} = tagged
             /\ Len(out'.items) = Cardinality(tagged)
             /\ out'.count = Cardinality(tagged)]_vars

\* a post has been created and the create has responded; the index has no
\* document for it yet, and a search for its tag has returned it
C24_Witness ==
    /\ out.op = "search_by_tag"
    /\ out.status = 200
    /\ out.tag = "go"
    /\ out.count = 1
    /\ out.items = <<posts[1]>>
    /\ es[1] = NoDoc
    /\ Len(tasks) = 1

\* C25: the index is written only for relational writes that succeeded, and
\* the response does not wait for it.  A create reaches the point where it
\* starts indexPostInES only through its commit, an update only through its
\* save, and the row is then in the posts table; the goroutine is started
\* with the projection of that row in the step that responds 201 or 200; no
\* other step of a create or update starts a goroutine, and the index changes
\* only when a goroutine runs, to what the goroutine was started with.
C25_IndexAfterWrite ==
    [][/\ \A p \in Procs :
             /\ (pc'[p] = "create_respond" /\ pc[p] # pc'[p]) =>
                   /\ pc[p] = "create_commit"
                   /\ posts'[loc'[p].post.id] = loc'[p].post
             /\ (pc'[p] \in {"update_inval", "update_respond"} /\ pc[p] # pc'[p]) =>
                   /\ pc[p] \in {"update_save", "update_inval"}
                   /\ pc[p] = "update_save" => posts'[loc'[p].post.id] = loc'[p].post
                   /\ pc[p] = "update_inval" => loc'[p] = loc[p]
       /\ tasks' # tasks =>
             \/ \E p \in Procs :
                   /\ pc[p] \in {"create_respond", "update_respond"}
                   /\ pc'[p] = "idle"
                   /\ out'.status \in {200, 201}
                   /\ tasks' = Append(tasks, [kind |-> "index", id |-> loc[p].post.id,
                                              doc |-> PostSearchResult(loc[p].post)])
                   /\ es' = es
             \/ \E p \in Procs :
                   /\ pc[p] = "delete_respond"
                   /\ pc'[p] = "idle"
                   /\ Len(tasks') = Len(tasks) + 1
                   /\ tasks'[Len(tasks')].kind = "delete"
                   /\ es' = es
             \/ \E t \in DOMAIN tasks :
                   /\ tasks' = SubSeq(tasks, 1, t - 1) \o SubSeq(tasks, t + 1, Len(tasks))
                   /\ \/ es' = es
                      \/ tasks[t].kind = "index" /\ es' = [es EXCEPT ![tasks[t].id] = tasks[t].doc]
                      \/ tasks[t].kind = "delete" /\ es' = [es EXCEPT ![tasks[t].id] = NoDoc]
       /\ tasks' = tasks => es' = es]_vars

\* a create has responded 201 with a post that is in the posts table, and
\* the index does not hold its document: the goroutine has not run yet
C25_Witness ==
    /\ out.op = "create"
    /\ out.status = 201
    /\ \A p \in Procs : pc[p] = "idle"
    /\ posts[out.post.id] = out.post
    /\ es[out.post.id] # PostSearchResult(out.post)
    /\ Len(tasks) = 1
    /\ tasks[1].doc = PostSearchResult(out.post)

\* C26: a goroutine that was started runs once: a goroutine leaves the
\* started ones only by running, alone, whether its call succeeded or
\* failed, and is not put back; and every started goroutine is eventually
\* run, with no request needed for it.
C26_TasksRunOnce ==
    /\ [][Len(tasks') < Len(tasks) =>
             /\ \E t \in DOMAIN tasks :
                   tasks' = SubSeq(tasks, 1, t - 1) \o SubSeq(tasks, t + 1, Len(tasks))
             /\ UNCHANGED <<pc, loc, out, reqs>>]_vars
    /\ (tasks # <<>>) ~> (tasks = <<>>)

\* a create and an update have responded and both their goroutines are
\* waiting to run while no request is being served
C26_Witness ==
    /\ Len(tasks) = 2
    /\ \A p \in Procs : pc[p] = "idle"
    /\ out.op = "update"
    /\ out.status = 200

\* C27: the short cuts of the related posts.  The index is searched only for
\* a post that has tags, and a post without tags is answered at once with an
\* empty list; the relational store is asked for related posts only with a
\* non-empty set of candidate ids, and a search without candidates is
\* answered with an empty list.
C27_ShortCircuits ==
    [][/\ \A p \in Procs :
             /\ (pc[p] = "idle" /\ pc'[p] = "related_search") =>
                   Len(loc'[p].post.tags) > 0
             /\ (pc[p] = "related_search" /\ pc'[p] = "related_find") =>
                   loc'[p].postIDs # {}
             /\ (pc[p] = "related_search" /\ pc'[p] = "idle" /\ out'.status = 200) =>
                   out'.items = <<>>
             /\ (pc'[p] = "related_find" /\ pc[p] # pc'[p]) => pc[p] = "related_search"
       /\ (reqs' = reqs + 1 /\ pc' = pc /\ out'.op = "related" /\ out'.status = 200) =>
             /\ out'.post = posts[out'.id]
             /\ Len(out'.post.tags) = 0
             /\ out'.items = <<>>]_vars

\* the post without tags was asked for with its related posts while the
\* index holds documents, and was answered at once with an empty list
C27_Witness ==
    /\ out.op = "related"
    /\ out.status = 200
    /\ out.post # NoPost
    /\ Len(out.post.tags) = 0
    /\ out.items = <<>>
    /\ \E i \in DOMAIN es : es[i] # NoDoc

\* C28: the related posts have no degraded result.  Once the post is read,
\* the request ends either with 500, carrying no post and no list, or with
\* 200, carrying the post and the complete answer: no list when the search
\* matched nothing, and otherwise every row the posts table holds for the
\* candidate ids.
C28_NoDegradedResult ==
    [][\A p \in Procs :
          (pc[p] \in {"related_search", "related_find"} /\ pc'[p] = "idle") =>
             \/ /\ out'.status = 500
                /\ out'.post = NoPost
                /\ out'.items = <<>>
             \/ /\ out'.status = 200
                /\ out'.post = loc[p].post
                /\ pc[p] = "related_search" =>
                      /\ Matching(loc[p].post) = {}
                      /\ out'.items = <<>>
                /\ pc[p] = "related_find" =>
                      LET rows == {posts[i] : i \in {j \in loc[p].postIDs : posts[j] # NoPost}}
                      IN /\ {out'.items[k] : k \in DOMAIN out'.items} = rows
                         /\ Len(out'.items) = Cardinality(rows)]_vars

\* a post with tags, for which the index holds candidates whose rows exist,
\* was asked for with its related posts and answered 500 with nothing
C28_Witness ==
    /\ out.op = "related"
    /\ out.status = 500
    /\ out.post = NoPost
    /\ out.items = <<>>
    /\ posts[out.id] # NoPost
    /\ \E i \in Matching(posts[out.id]) : posts[i] # NoPost

\* C29: in the pagination block of a list response total_pages is the
\* ceiling of total_count / limit (the least number of pages of that size
\* that hold every row; 0 for no rows), has_next says that current_page is
\* below total_pages, and has_prev that current_page is above 1.
C29_PaginationArithmetic ==
    (out.op \in {"list_posts", "list_logs"} /\ out.status = 200) =>
        LET g == out.pagination
        IN /\ g.limit >= 1
           /\ g.total_pages >= 0
           /\ g.total_pages * g.limit >= g.total_count
           /\ g.total_pages > 0 => (g.total_pages - 1) * g.limit < g.total_count
           /\ g.total_count = 0 => g.total_pages = 0
           /\ g.has_next <=> (g.current_page < g.total_pages)
           /\ g.has_prev <=> (g.current_page > 1)

\* the second page of two posts was listed out of a table whose row count
\* is not a multiple of two: there is a page before it and one after it
C29_Witness ==
    /\ out.op = "list_posts"
    /\ out.status = 200
    /\ out.pagination.limit = 2
    /\ out.pagination.current_page = 2
    /\ out.pagination.total_count % 2 = 1
    /\ out.pagination.total_pages = (out.pagination.total_count + 1) \div 2
    /\ out.pagination.has_next
    /\ out.pagination.has_prev

\* C30: every document of the index is kept under the id it carries, and
\* its id, title, content and tags are those of a row that a committed
\* create or a save of an update has written to the posts table.
C30_DocumentsAreProjections ==
    \A i \in DOMAIN es :
        es[i] # NoDoc =>
           /\ es[i].id = i
           /\ \E w \in written :
                 /\ w.id = es[i].id
                 /\ w.title = es[i].title
                 /\ w.content = es[i].content
                 /\ w.tags = es[i].tags

\* the index holds the document of a post as an update wrote it, while the
\* posts table holds a later version of the row
C30_Witness ==
    /\ es[1] # NoDoc
    /\ posts[1] # NoPost
    /\ es[1] # PostSearchResult(posts[1])
    /\ Cardinality(written) = 3
    /\ es[1].title = "B"

\* C31: a deleted post stays deleted: once a delete of X has gone through
\* (it has committed and responded 200), the posts table holds no row for X.
C31_DeletedStaysDeleted ==
    \A x \in DOMAIN posts : delRet[x] => posts[x] = NoPost

\* an UpdatePost is being served
UpdateInFlight ==
    \E p \in Procs : pc[p] \in {"update_save", "update_inval", "update_respond"}

\* C32: updates of one post do not lose each other's writes: once an update
\* that set the title to "B" and an update that set the content to "y" have
\* both written and responded, the row of the post, while it is there,
\* carries both the title "B" and the content "y" (no request sets either
\* field to anything else).
C32_NoLostUpdate ==
    \A x \in DOMAIN posts :
        (/\ ~UpdateInFlight
         /\ posts[x] # NoPost
         /\ \E w \in written : w.id = x /\ w.title = "B"
         /\ \E w \in written : w.id = x /\ w.content = "y") =>
            (posts[x].title = "B" /\ posts[x].content = "y")

\* C33: deletes are counted once: when no request is being served, the rows
\* of activity_logs with action "delete_post" are as many as the posts whose
\* delete has gone through.
C33_DeletesCountedOnce ==
    (\A p \in Procs : pc[p] = "idle") =>
        Cardinality({l \in logs : l.action = "delete_post"})
            = Cardinality({x \in DOMAIN delRet : delRet[x]})

\* C34: the cache holds only what GetPost read from the posts table.  Every
\* entry deserializes to a row that a commit or a save has written to the
\* posts table under the id of its key, and an entry changes only by being
\* removed or by the step of a GetPost that writes the row it has read.
C34_CacheFromStore ==
    /\ [](\A x \in DOMAIN cache :
             cache[x] # NoEntry =>
                /\ UnmarshalOk(cache[x])
                /\ Unmarshal(cache[x]).id = x
                /\ Unmarshal(cache[x]) \in written)
    /\ [][\A x \in DOMAIN cache :
             cache'[x] # cache[x] =>
                \/ cache'[x] = NoEntry
                \/ \E p \in Procs :
                      /\ pc[p] = "get_set"
                      /\ pc'[p] = "idle"
                      /\ loc[p].id = x
                      /\ Unmarshal(cache'[x]) = loc[p].post]_vars

\* the cache holds a snapshot of post 1 that GetPost has read, and the posts
\* table holds a later version of the row, written by an update
C34_Witness ==
    /\ cache[1] # NoEntry
    /\ posts[1] # NoPost
    /\ Unmarshal(cache[1]) # posts[1]
    /\ Unmarshal(cache[1]) \in written
    /\ posts[1].updated_at > Unmarshal(cache[1]).updated_at

\* C35: the handlers that read write neither the relational store nor the
\* index: no step of GetPost, GetPostWithRelated, GetAllPosts,
\* GetActivityLogs, SearchPostsByTag or SearchPosts changes the posts table,
\* the activity_logs table or the index, or starts a goroutine; and the post
\* of a 200 response of GetPostWithRelated is the row of the posts table,
\* whatever the cache holds for it.
C35_ReadsDoNotWrite ==
    [][/\ UNCHANGED <<posts, logs, postSeq, logSeq, es, tasks>>
       /\ \A p \in Procs :
             (pc[p] = "idle" /\ pc'[p] = "related_search") =>
                loc'[p].post = posts[loc'[p].id]
       /\ (out' # out /\ out'.op = "related" /\ out'.status = 200) =>
             out'.post = posts[out'.id]]_vars

\* post 1 was asked for with its related posts while the cache held an
\* older snapshot of it, and the response carries the row of the posts table
C35_Witness ==
    /\ out.op = "related"
    /\ out.status = 200
    /\ out.id = 1
    /\ cache[1] = StaleEntry
    /\ Unmarshal(cache[1]) # posts[1]
    /\ out.post = posts[1]
    /\ Len(out.items) > 0

====
